---- MODULE Spec2Model ----
(***************************************************************************)
(* GRACE context generator (src/grace_master/main.py): fetch_source,       *)
(* generate_multi_tree, extract_skeleton and build_context as state        *)
(* machines.  Text is a sequence of one-character strings; a few fixed     *)
(* multi-character strings (tags, message prefixes, path names, the        *)
(* "<![CDATA[" opener) are single tokens.                                  *)
(***************************************************************************)
EXTENDS Integers, Sequences, FiniteSets, TLC

VARIABLES
    \* extract_skeleton applied repeatedly
    sk_content, sk_result, sk_prev, sk_passes,
    \* the file system under the source roots, and the indexer's outputs
    fs_dirs, fs_files, file_text, source_dirs, tree_str, file_entries, ix_pc,
    \* fetch_source: argument, locals, position, environment
    source, fpc, is_pdf, is_url, temp_file, temp_file_path, tmp_files,
    raw_text, exc, result, HAS_DOCLING, disk,
    \* build_context: arguments, prior artifacts, SOURCES.txt, output document
    mode, mission_text, grace, sources_txt, queue, out, pc

skelVars  == <<sk_content, sk_result, sk_prev, sk_passes>>
fsVars    == <<fs_dirs, fs_files, file_text>>
indexVars == <<source_dirs, tree_str, file_entries, ix_pc>>
fetchVars == <<source, fpc, is_pdf, is_url, temp_file, temp_file_path, tmp_files,
               raw_text, exc, result>>
envVars   == <<HAS_DOCLING, disk>>
buildVars == <<mode, mission_text, grace, sources_txt, queue, out, pc>>
vars      == <<skelVars, fsVars, indexVars, fetchVars, envVars, buildVars>>

notFetchVars == <<skelVars, fsVars, indexVars, envVars, buildVars>>

----------------------------------------------------------------------------
\* Bounds of the model.
MaxPieces == 3   \* pieces concatenated into an extract_skeleton input
MaxDelims == 2   \* occurrences of "]]>" in an embedded text
MaxDirs   == 3   \* directories created under the working directory
MaxFiles  == 1   \* files created in those directories
MaxRoots  == 2   \* source roots given on the command line
MaxLines  == 2   \* lines of SOURCES.txt

----------------------------------------------------------------------------
\* Generic sequence helpers (Python str methods on sequences of characters).

StartsWith(s, p) == Len(p) <= Len(s) /\ SubSeq(s, 1, Len(p)) = p

EndsWith(s, p) == Len(p) <= Len(s) /\ SubSeq(s, Len(s) - Len(p) + 1, Len(s)) = p

Contains(s, p) == \E i \in 1..(Len(s) - Len(p) + 1) : SubSeq(s, i, i + Len(p) - 1) = p

RECURSIVE Flatten(_)
Flatten(ss) == IF ss = <<>> THEN <<>> ELSE Head(ss) \o Flatten(Tail(ss))

\* str.split(sep): always at least one piece.
RECURSIVE Split(_, _)
Split(s, sep) ==
    IF \E i \in 1..Len(s) : s[i] = sep
    THEN LET i == CHOOSE k \in 1..Len(s) : s[k] = sep /\ \A j \in 1..(k - 1) : s[j] # sep
         IN  <<SubSeq(s, 1, i - 1)>> \o Split(SubSeq(s, i + 1, Len(s)), sep)
    ELSE <<s>>

\* sep.join(ls)
RECURSIVE Join(_, _)
Join(ls, sep) ==
    IF ls = <<>> THEN <<>>
    ELSE IF Len(ls) = 1 THEN ls[1]
    ELSE ls[1] \o <<sep>> \o Join(Tail(ls), sep)

Whitespace == {" ", "\t", "\n", "\r"}

RECURSIVE LStrip(_)
LStrip(s) == IF s # <<>> /\ Head(s) \in Whitespace THEN LStrip(Tail(s)) ELSE s

RECURSIVE RStrip(_)
RStrip(s) ==
    IF s # <<>> /\ s[Len(s)] \in Whitespace THEN RStrip(SubSeq(s, 1, Len(s) - 1)) ELSE s

\* str.strip()
Strip(s) == RStrip(LStrip(s))

----------------------------------------------------------------------------
\* extract_skeleton (main.py 216-219)

SkeletonPrefixes ==
    { <<"d","e","f"," ">>, <<"c","l","a","s","s"," ">>, <<"i","m","p","o","r","t"," ">>,
      <<"f","r","o","m"," ">>, <<"@">>, <<"a","s","y","n","c"," ">> }

TripleQuote == <<"\"", "\"", "\"">>

KeepLine(l) ==
    (\E p \in SkeletonPrefixes : StartsWith(Strip(l), p)) \/ Contains(l, TripleQuote)

\* Mutant: the prefix test reads the raw line and the kept line is emitted stripped.
extract_skeleton_stripOut(content) ==
    LET lines == Split(content, "\n")
        kept  == SelectSeq(lines, LAMBDA l :
                     (\E p \in SkeletonPrefixes : StartsWith(l, p)) \/ Contains(l, TripleQuote))
    IN  Join([i \in 1..Len(kept) |-> Strip(kept[i])], "\n")

extract_skeleton(content) ==
    LET lines    == Split(content, "\n")
        skeleton == SelectSeq(lines, KeepLine)
    IN  Join(skeleton, "\n")

\* Inputs: concatenations of at most MaxPieces pieces.
Pieces ==
    { <<"d","e","f"," ">>, <<"\n">>, <<" ">>, <<"@">>, TripleQuote, <<"x">>, <<"\"">> }

SkeletonInputs ==
    { Flatten(ps) : ps \in UNION { [1..n -> Pieces] : n \in 0..MaxPieces } }

----------------------------------------------------------------------------
\* The file system below the working directory.  A path is the sequence of its
\* components; names are atomic and none is a substring of another.

DirNames  == {"src", "venv"}
FileNames == {"a.py", "b.pyc"}

\* The order in which a directory listing returns names.
NameOrder == <<"src", "venv", "a.py", "b.pyc">>

\* The suffix str.endswith tests on a file name.
Suffix(name) == IF name = "b.pyc" THEN ".pyc" ELSE ".py"

\* main.py 231
exclude ==
    {".git", "__pycache__", "venv", "node_modules", "specs", ".idea", ".vscode",
     ".grace", "dist", "build"}

\* main.py 276 / 296 / 313
SkippedSuffixes == {".pyc", ".png", ".jpg", ".exe"}

\* os.path.exists
PathExists(p) == p \in fs_dirs \/ p \in fs_files

ListDirs(top) ==
    SelectSeq(NameOrder, LAMBDA n : top \in fs_dirs /\ Append(top, n) \in fs_dirs)

ListFiles(top) ==
    SelectSeq(NameOrder, LAMBDA n : top \in fs_dirs /\ Append(top, n) \in fs_files)

\* Mutant: the listing is left as os.walk produced it.
Prune_none(dirs, excl) == dirs

\* dirs[:] = [d for d in dirs if d not in exclude]   (main.py 207, 274, 294, 311)
Prune(dirs, excl) == SelectSeq(dirs, LAMBDA d : d \notin excl)

\* os.walk(top), top-down, with the caller's in-place pruning of dirs applied
\* before the descent.  A top that is no directory yields nothing.
RECURSIVE WalkPruned(_, _)
WalkPruned(top, excl) ==
    IF top \notin fs_dirs THEN <<>>
    ELSE LET dirs  == Prune(ListDirs(top), excl)
             files == ListFiles(top)
         IN  <<[root |-> top, dirs |-> dirs, files |-> files]>>
             \o Flatten([i \in 1..Len(dirs) |-> WalkPruned(Append(top, dirs[i]), excl)])

\* Non-overlapping occurrences of p in s, left to right (str.replace).
RECURSIVE CountOcc(_, _)
CountOcc(s, p) ==
    IF Len(s) < Len(p) \/ p = <<>> THEN 0
    ELSE IF StartsWith(s, p) THEN 1 + CountOcc(SubSeq(s, Len(p) + 1, Len(s)), p)
    ELSE CountOcc(Tail(s), p)

\* root.replace(start_path, '').count(os.sep)   (main.py 208)
Level(root, start_path) ==
    (Len(root) - 1) - CountOcc(root, start_path) * (Len(start_path) - 1)

\* The lines one os.walk record adds (main.py 208-212).  kind, level and name are
\* what is printed; at and start record the directory and the root the line is for.
WalkLines(w, start_path) ==
    LET level == Level(w.root, start_path)
    IN  <<[kind |-> "dir", level |-> level + 1, name |-> w.root[Len(w.root)],
           at |-> w.root, start |-> start_path]>>
        \o [i \in 1..Len(w.files) |->
              [kind |-> "file", level |-> level + 2, name |-> w.files[i],
               at |-> w.root, start |-> start_path]]

\* main.py 200-213, one start path
RootLines(start_path, excl) ==
    IF ~PathExists(start_path)
    THEN <<[kind |-> "missing", level |-> 0, name |-> "", at |-> start_path,
            start |-> start_path]>>
    ELSE LET ws == WalkPruned(start_path, excl)
         IN  <<[kind |-> "root", level |-> 0, name |-> "", at |-> start_path,
                start |-> start_path]>>
             \o Flatten([i \in 1..Len(ws) |-> WalkLines(ws[i], start_path)])
             \o <<[kind |-> "blank", level |-> 0, name |-> "", at |-> start_path,
                   start |-> start_path]>>

\* generate_multi_tree (main.py 198-214): the lines of tree_str.
generate_multi_tree(start_paths, exclude_dirs) ==
    Flatten([i \in 1..Len(start_paths) |-> RootLines(start_paths[i], exclude_dirs)])

\* The file loop of build_context for one source root (main.py 271-278, 291-297,
\* 308-314): the paths it reads, in order.
RootEntries(src_dir, excl) ==
    IF ~PathExists(src_dir) THEN <<>>
    ELSE LET ws == WalkPruned(src_dir, excl)
             OfWalk(w) ==
                 LET files == SelectSeq(w.files, LAMBDA f : Suffix(f) \notin SkippedSuffixes)
                 IN  [i \in 1..Len(files) |->
                        [src_dir |-> src_dir, path |-> Append(w.root, files[i])]]
         IN  Flatten([i \in 1..Len(ws) |-> OfWalk(ws[i])])

IndexFiles(srcs, excl) ==
    Flatten([i \in 1..Len(srcs) |-> RootEntries(srcs[i], excl)])

\* The command line's --src values: existing directories, existing files, or a
\* path that does not exist.
MissingRoot == <<"nope">>

RootCandidates == fs_dirs \cup fs_files \cup {MissingRoot}

RootLists == UNION { [1..n -> RootCandidates] : n \in 1..MaxRoots }

----------------------------------------------------------------------------
\* Embedded text and the CDATA convention.

CloseDelim == <<"]", "]", ">">>

CDataOpen == "<![CDATA["

\* Python str.replace(old, new): non-overlapping, left to right.
RECURSIVE Replace(_, _, _)
Replace(s, old, new) ==
    IF Len(s) < Len(old) THEN s
    ELSE IF StartsWith(s, old)
         THEN new \o Replace(SubSeq(s, Len(old) + 1, Len(s)), old, new)
         ELSE <<Head(s)>> \o Replace(Tail(s), old, new)

\* content.replace("]]>", "]]]]><![CDATA[>")   (main.py 259, 298, 315)
Neutralize(content) ==
    Replace(content, CloseDelim, <<"]", "]", "]", "]", ">", CDataOpen, ">">>)

\* '<![CDATA[\n{x}\n]]>' : what lies between the opener and the closing delimiter.
Body(x) == <<"\n">> \o x \o <<"\n">>

\* An XML reader inside a CDATA section: character data runs to the first "]]>";
\* outside, the only thing that may follow within the block is another opener.
RECURSIVE CDataScan(_, _, _)
CDataScan(s, inside, data) ==
    IF s = <<>> THEN [ok |-> TRUE, inside |-> inside, data |-> data]
    ELSE IF inside
         THEN IF StartsWith(s, CloseDelim)
              THEN CDataScan(SubSeq(s, 4, Len(s)), FALSE, data)
              ELSE CDataScan(Tail(s), TRUE, Append(data, Head(s)))
         ELSE IF Head(s) = CDataOpen
              THEN CDataScan(Tail(s), TRUE, data)
              ELSE [ok |-> FALSE, inside |-> FALSE, data |-> data]

\* The block is terminated by its own closing delimiter and not before.
BlockIntact(body) ==
    LET r == CDataScan(body, TRUE, <<>>) IN r.ok /\ r.inside

\* The character data a reader recovers from the block.
BlockData(body) == CDataScan(body, TRUE, <<>>).data

\* "a", then k times "]]>a".
RECURSIVE DelimText(_)
DelimText(k) == IF k = 0 THEN <<"a">> ELSE DelimText(k - 1) \o CloseDelim \o <<"a">>

Texts == {<<>>} \cup { DelimText(k) : k \in 0..MaxDelims }

----------------------------------------------------------------------------
\* fetch_source (main.py 147-187) and parse_pdf_docling (main.py 138-145).

None == 0

LocalText == <<"notes", ".txt">>
LocalPdf  == <<"paper", ".PDF">>
UrlText   == <<"http://", "site">>
UrlPdf    == <<"https://", "site", ".pdf">>

Sources == {LocalText, LocalPdf, UrlText, UrlPdf}

LocalPaths == {LocalText, LocalPdf}

\* str.lower() on the tokens of a reference.
Lower(s) == [i \in 1..Len(s) |-> IF s[i] = ".PDF" THEN ".pdf" ELSE s[i]]

\* Raw markup: "a", "t", "*", "]", ">" are characters; "<script>", "<style>",
\* "<nav>", "<footer>", "<iframe>" and "<b>" each stand for one whole element of
\* that tag; "<body>" opens a body element that runs to the end of the text.
StrippedElements == {"<script>", "<style>", "<nav>", "<footer>", "<iframe>"}

RawTexts ==
    { <<>>, <<"a">>, <<"a", "<script>", "a">>, <<"a", "*">>, <<"t", "<body>", "a", "<nav>">>,
      <<"<b>">>, <<"a", "]", "]", ">", "a">> }

\* Response bodies of a GET.
WebTexts == { <<"a", "<script>">>, <<"a", "]", "]", ">", "a">> }

\* Mutant: no element is removed before the conversion.
Decompose_none(soup) == soup

\* for tag in soup([...]): tag.decompose()   (main.py 183)
Decompose(soup) == SelectSeq(soup, LAMBDA t : t \notin StrippedElements)

\* soup.body if soup.body else soup   (main.py 184)
BodyOf(soup) ==
    IF \E i \in 1..Len(soup) : soup[i] = "<body>"
    THEN LET i == CHOOSE k \in 1..Len(soup) :
                      soup[k] = "<body>" /\ \A j \in 1..(k - 1) : soup[j] # "<body>"
         IN  SubSeq(soup, i + 1, Len(soup))
    ELSE soup

\* markdownify: markup becomes markdown, markdown's own characters are escaped.
MdToken(t) ==
    IF t = "*" THEN <<"\\", "*">>
    ELSE IF t = "<b>" THEN <<"*", "*", "b", "*", "*">>
    ELSE <<t>>

Markdownify(soup) == Flatten([i \in 1..Len(soup) |-> MdToken(soup[i])])

\* main.py 182-184
Normalize(raw) == Markdownify(BodyOf(Decompose(raw)))

\* The messages fetch_source returns as content.
NotFound(src) == <<"Error: File not found ">> \o src

ErrorProcessing(src, e) == <<"Error processing ">> \o src \o <<": ">> \o e

DoclingMissing == <<"[ERROR] 'docling' missing. Run: pip install docling">>

DoclingFailed(e) == <<"[ERROR] Docling parsing failed: ">> \o e

\* str(e) of an exception: some name the file, some do not.
ExcTexts(src) == { <<"boom">>, <<"No such file: ">> \o src }

DiskExists(p) == p \in DOMAIN disk /\ disk[p].exists

DiskStates ==
    { d \in [LocalPaths -> [exists : BOOLEAN, text : RawTexts]] :
        /\ \A p \in LocalPaths : ~d[p].exists => d[p].text = <<>>
        /\ d[LocalPdf].text = <<>> }

\* main.py 148-152: the call starts; classification of the reference.
FetchClassify ==
    /\ fpc = "call"
    /\ is_pdf' = EndsWith(Lower(source), <<".pdf">>)
    /\ is_url' = (\E p \in {<<"http://">>, <<"https://">>} : StartsWith(source, p))
    /\ temp_file' = None
    /\ temp_file_path' = None
    /\ fpc' = IF is_url' /\ ~is_pdf' THEN "probe" ELSE "try"
    /\ UNCHANGED <<source, tmp_files, raw_text, exc, result>>
    /\ UNCHANGED notFetchVars

\* main.py 154-158: the HEAD probe; a failure is swallowed.
FetchProbe ==
    /\ fpc = "probe"
    /\ \E o \in {"fails", "pdf", "other"} : is_pdf' = (o = "pdf")
    /\ fpc' = "try"
    /\ UNCHANGED <<source, is_url, temp_file, temp_file_path, tmp_files, raw_text, exc, result>>
    /\ UNCHANGED notFetchVars

\* main.py 161-164, 172: GET and raise_for_status.
FetchGet ==
    /\ fpc = "try" /\ is_url
    /\ \/ /\ \E e \in ExcTexts(source) : exc' = e
          /\ fpc' = "except"
          /\ UNCHANGED raw_text
       \/ /\ is_pdf
          /\ fpc' = "mkstemp"
          /\ UNCHANGED <<raw_text, exc>>
       \/ /\ ~is_pdf
          /\ \E body \in WebTexts : raw_text' = body
          /\ fpc' = "normalize"
          /\ UNCHANGED exc
    /\ UNCHANGED <<source, is_pdf, is_url, temp_file, temp_file_path, tmp_files, result>>
    /\ UNCHANGED notFetchVars

\* main.py 166-170: mkstemp, os.write, os.close, then the two assignments.
FetchSaveTemp ==
    /\ fpc = "mkstemp"
    /\ LET path == 1 + Cardinality(tmp_files)
       IN  \/ /\ \E e \in ExcTexts(source) : exc' = e      \* mkstemp raises
              /\ fpc' = "except"
              /\ UNCHANGED <<temp_file, temp_file_path, tmp_files>>
           \/ /\ \E e \in ExcTexts(source) : exc' = e      \* os.write or os.close raises
              /\ temp_file_path' = path
              /\ tmp_files' = tmp_files \cup {path}
              /\ fpc' = "except"
              /\ UNCHANGED temp_file
           \/ /\ temp_file_path' = path
              /\ tmp_files' = tmp_files \cup {path}
              /\ temp_file' = path
              /\ fpc' = "parse"
              /\ UNCHANGED exc
    /\ UNCHANGED <<source, is_pdf, is_url, raw_text, result>>
    /\ UNCHANGED notFetchVars

\* parse_pdf_docling(file_path): what it can return.  It never raises.
parse_pdf_docling(available) ==
    IF ~HAS_DOCLING THEN {DoclingMissing}
    ELSE { DoclingFailed(e) : e \in ExcTexts(source) }
         \cup (IF available THEN { <<"a">>, <<"a", "]", "]", ">">> } ELSE {})

\* main.py 174-177: parse the document, remove the temporary file, return.
FetchParsePdf ==
    /\ fpc \in {"try", "parse"} /\ is_pdf /\ (fpc = "try" => ~is_url)
    /\ \E content \in parse_pdf_docling(IF is_url THEN temp_file \in tmp_files
                                                  ELSE DiskExists(source)) :
          \/ /\ temp_file = None
             /\ result' = content
             /\ fpc' = "returned"
             /\ UNCHANGED <<tmp_files, exc>>
          \/ /\ temp_file # None                            \* os.remove succeeds
             /\ tmp_files' = tmp_files \ {temp_file}
             /\ result' = content
             /\ fpc' = "returned"
             /\ UNCHANGED exc
          \/ /\ temp_file # None                            \* os.remove raises
             /\ \E e \in ExcTexts(source) : exc' = e
             /\ fpc' = "except"
             /\ UNCHANGED <<tmp_files, result>>
    /\ UNCHANGED <<source, is_pdf, is_url, temp_file, temp_file_path, raw_text>>
    /\ UNCHANGED notFetchVars

\* main.py 179-181: the local existence check and read.
FetchLocalRead ==
    /\ fpc = "try" /\ ~is_url /\ ~is_pdf
    /\ \/ /\ ~DiskExists(source)
          /\ result' = NotFound(source)
          /\ fpc' = "returned"
          /\ UNCHANGED <<raw_text, exc>>
       \/ /\ DiskExists(source)
          /\ raw_text' = disk[source].text
          /\ fpc' = "normalize"
          /\ UNCHANGED <<result, exc>>
       \/ /\ DiskExists(source)                             \* open or read raises
          /\ \E e \in ExcTexts(source) : exc' = e
          /\ fpc' = "except"
          /\ UNCHANGED <<result, raw_text>>
    /\ UNCHANGED <<source, is_pdf, is_url, temp_file, temp_file_path, tmp_files>>
    /\ UNCHANGED notFetchVars

\* main.py 182-184: strip, convert, return.
FetchNormalize ==
    /\ fpc = "normalize"
    /\ \/ /\ result' = Normalize(raw_text)
          /\ fpc' = "returned"
          /\ UNCHANGED exc
       \/ /\ \E e \in ExcTexts(source) : exc' = e           \* the parser or converter raises
          /\ fpc' = "except"
          /\ UNCHANGED result
    /\ UNCHANGED <<source, is_pdf, is_url, temp_file, temp_file_path, tmp_files, raw_text>>
    /\ UNCHANGED notFetchVars

\* main.py 185-187: the handler.  os.remove inside it is not guarded.
FetchExcept ==
    /\ fpc = "except"
    /\ \/ /\ temp_file = None
          /\ result' = ErrorProcessing(source, exc)
          /\ fpc' = "returned"
          /\ UNCHANGED tmp_files
       \/ /\ temp_file # None                               \* os.remove succeeds
          /\ tmp_files' = tmp_files \ {temp_file}
          /\ result' = ErrorProcessing(source, exc)
          /\ fpc' = "returned"
       \/ /\ temp_file # None                               \* os.remove raises: it escapes
          /\ fpc' = "raised"
          /\ UNCHANGED <<tmp_files, result>>
    /\ UNCHANGED <<source, is_pdf, is_url, temp_file, temp_file_path, raw_text, exc>>
    /\ UNCHANGED notFetchVars

----------------------------------------------------------------------------
\* build_context (main.py 223-320).  The document is the sequence of what was
\* written: opening tags, closing tags, CDATA sections, the instruction template.

Modes == {"RESEARCH", "ARCHITECT", "REFACTOR", "DEVELOPER"}

GraceFiles == {"MANUAL_RULES.md", "KNOWLEDGE.md", "ARCHITECTURE.md"}

Open(name, attr, type) ==
    [k |-> "open", name |-> name, attr |-> attr, type |-> type, body |-> <<>>]

Close(name) ==
    [k |-> "close", name |-> name, attr |-> <<>>, type |-> "", body |-> <<>>]

CData(x) ==
    [k |-> "cdata", name |-> "", attr |-> <<>>, type |-> "", body |-> Body(x)]

\* BASE_PROMPTS.get(mode, "")   (main.py 241-242)
Template(m) ==
    [k |-> "template", name |-> m, attr |-> <<>>, type |-> "", body |-> <<>>]

\* '<name ...><![CDATA[\n{x}\n]]></name>'
Block(name, attr, type, x) == <<Open(name, attr, type), CData(x), Close(name)>>

\* get_grace_content(filename): "" when the file is missing   (main.py 189-196)
get_grace_content(filename) == grace[filename]

\* get_file_content(path)   (main.py 189-192)
get_file_content(path) == IF path \in fs_files THEN file_text[path] ELSE <<>>

\* The text of tree_str.
PathStr(path) == Join([i \in 1..Len(path) |-> <<path[i]>>], "/")

Indent(n) == [i \in 1..n |-> "    "]

LineText(l) ==
    CASE l.kind = "missing" -> <<"[MISSING DIRECTORY: ">> \o PathStr(l.at) \o <<"]", "\n">>
      [] l.kind = "root"    -> <<"ROOT: ">> \o PathStr(l.at) \o <<"/", "\n">>
      [] l.kind = "dir"     -> Indent(l.level) \o <<"|-- ", l.name, "/", "\n">>
      [] l.kind = "file"    -> Indent(l.level) \o <<"|-- ", l.name, "\n">>
      [] OTHER              -> <<"\n">>

TreeText(lines) == Flatten([i \in 1..Len(lines) |-> LineText(lines[i])])

\* Mutant: the file entry carries the reduced text.
FullContent_skeleton(path) == extract_skeleton(get_file_content(path))

\* get_file_content(path).replace("]]>", "]]]]><![CDATA[>")   (main.py 298, 315)
FullContent(path) == Neutralize(get_file_content(path))

\* main.py 291-299 and 308-316: one <file> block per indexed file, full content.
FullEntries(srcs) ==
    LET es == IndexFiles(srcs, exclude)
    IN  Flatten([i \in 1..Len(es) |-> Block("file", es[i].path, "", FullContent(es[i].path))])

\* main.py 271-280: one <file type="skeleton"> block per indexed file.
SkeletonEntries(srcs) ==
    LET es == IndexFiles(srcs, exclude)
    IN  Flatten([i \in 1..Len(es) |->
            Block("file", es[i].path, "skeleton", extract_skeleton(get_file_content(es[i].path)))])

\* main.py 269, 289, 307: the <tree> block.
TreeBlock(srcs) == Block("tree", <<>>, "", TreeText(generate_multi_tree(srcs, exclude)))

\* main.py 237-245: root element, template, mission.
BuildHeader ==
    /\ pc = "start"
    /\ out' = <<Open("grace_context", <<mode>>, ""), Template(mode)>>
              \o Block("mission", <<>>, "", mission_text)
    /\ pc' = "mode"
    /\ UNCHANGED <<mode, mission_text, grace, sources_txt, queue>>
    /\ UNCHANGED <<skelVars, fsVars, indexVars, fetchVars, envVars>>

\* [line.strip() for line in s if line.strip() and not line.startswith('#')]   (main.py 256)
SourceLines(lines) ==
    LET kept == SelectSeq(lines, LAMBDA line : Strip(line) # <<>> /\ ~StartsWith(line, <<"#">>))
    IN  [i \in 1..Len(kept) |-> Strip(kept[i])]

\* main.py 248-256: manual rules, the <raw_sources> opener, the list of references.
ResearchOpen ==
    /\ pc = "mode" /\ mode = "RESEARCH"
    /\ LET manual_rules == get_grace_content("MANUAL_RULES.md")
       IN  out' = out
                  \o (IF manual_rules # <<>>
                      THEN Block("user_logic", <<>>, "axiom", manual_rules) ELSE <<>>)
                  \o <<Open("raw_sources", <<>>, "")>>
    /\ queue' = IF sources_txt.exists THEN SourceLines(sources_txt.lines) ELSE <<>>
    /\ pc' = "sources"
    /\ UNCHANGED <<mode, mission_text, grace, sources_txt>>
    /\ UNCHANGED <<skelVars, fsVars, indexVars, fetchVars, envVars>>

\* main.py 257-258: the next reference is handed to fetch_source.
ResearchFetch ==
    /\ pc = "sources" /\ queue # <<>> /\ fpc = "idle"
    /\ source' = Head(queue)
    /\ fpc' = "call"
    /\ UNCHANGED <<is_pdf, is_url, temp_file, temp_file_path, tmp_files, raw_text, exc, result>>
    /\ UNCHANGED <<skelVars, fsVars, indexVars, envVars, buildVars>>

\* main.py 259-260: fetch_source returned; its result becomes an <article> block.
ResearchArticle ==
    /\ pc = "sources" /\ fpc = "returned"
    /\ out' = out \o Block("article", source, "", Neutralize(result))
    /\ queue' = Tail(queue)
    /\ fpc' = "idle"
    /\ UNCHANGED <<mode, mission_text, grace, sources_txt, pc>>
    /\ UNCHANGED <<source, is_pdf, is_url, temp_file, temp_file_path, tmp_files, raw_text,
                   exc, result>>
    /\ UNCHANGED <<skelVars, fsVars, indexVars, envVars>>

\* An exception that left fetch_source is caught nowhere in build_context: the
\* with-block closes the file and the run ends.
ResearchRaise ==
    /\ pc = "sources" /\ fpc = "raised"
    /\ pc' = "crashed"
    /\ UNCHANGED <<mode, mission_text, grace, sources_txt, queue, out>>
    /\ UNCHANGED <<skelVars, fsVars, indexVars, fetchVars, envVars>>

\* main.py 261, 319: the list is exhausted.
ResearchClose ==
    /\ pc = "sources" /\ queue = <<>> /\ fpc = "idle"
    /\ out' = out \o <<Close("raw_sources"), Close("grace_context")>>
    /\ pc' = "done"
    /\ UNCHANGED <<mode, mission_text, grace, sources_txt, queue>>
    /\ UNCHANGED <<skelVars, fsVars, indexVars, fetchVars, envVars>>

\* main.py 264-281, 319
ArchitectSection ==
    /\ pc = "mode" /\ mode = "ARCHITECT"
    /\ LET specs == get_grace_content("KNOWLEDGE.md")
       IN  out' = out
                  \o (IF specs # <<>> THEN Block("research_specs", <<>>, "", specs) ELSE <<>>)
                  \o <<Open("current_codebase_structure", <<>>, "")>>
                  \o TreeBlock(source_dirs)
                  \o SkeletonEntries(source_dirs)
                  \o <<Close("current_codebase_structure"), Close("grace_context")>>
    /\ pc' = "done"
    /\ UNCHANGED <<mode, mission_text, grace, sources_txt, queue>>
    /\ UNCHANGED <<skelVars, fsVars, indexVars, fetchVars, envVars>>

\* main.py 284-300, 319
RefactorSection ==
    /\ pc = "mode" /\ mode = "REFACTOR"
    /\ LET specs == get_grace_content("KNOWLEDGE.md")
       IN  out' = out
                  \o (IF specs # <<>> THEN Block("research_specs", <<>>, "", specs) ELSE <<>>)
                  \o <<Open("source_code_raw", <<>>, "")>>
                  \o TreeBlock(source_dirs)
                  \o FullEntries(source_dirs)
                  \o <<Close("source_code_raw"), Close("grace_context")>>
    /\ pc' = "done"
    /\ UNCHANGED <<mode, mission_text, grace, sources_txt, queue>>
    /\ UNCHANGED <<skelVars, fsVars, indexVars, fetchVars, envVars>>

\* main.py 303-317, 319
DeveloperSection ==
    /\ pc = "mode" /\ mode = "DEVELOPER"
    /\ LET arch == get_grace_content("ARCHITECTURE.md")
       IN  out' = out
                  \o (IF arch # <<>> THEN Block("architecture_context", <<>>, "", arch) ELSE <<>>)
                  \o <<Open("source_code", <<>>, "")>>
                  \o TreeBlock(source_dirs)
                  \o FullEntries(source_dirs)
                  \o <<Close("source_code_raw"), Close("grace_context")>>
    /\ pc' = "done"
    /\ UNCHANGED <<mode, mission_text, grace, sources_txt, queue>>
    /\ UNCHANGED <<skelVars, fsVars, indexVars, fetchVars, envVars>>

----------------------------------------------------------------------------
\* Initial values of the parts a specification does not exercise.

IdleSkeleton ==
    sk_content = <<>> /\ sk_result = <<>> /\ sk_prev = <<>> /\ sk_passes = 0

IdleFs == fs_dirs = {} /\ fs_files = {} /\ file_text = <<>>

IdleIndex ==
    source_dirs = <<>> /\ tree_str = <<>> /\ file_entries = <<>> /\ ix_pc = "idle"

IdleFetch ==
    /\ source = <<>> /\ fpc = "idle" /\ is_pdf = FALSE /\ is_url = FALSE
    /\ temp_file = None /\ temp_file_path = None /\ tmp_files = {}
    /\ raw_text = <<>> /\ exc = <<>> /\ result = <<>>

IdleEnv ==
    /\ HAS_DOCLING = FALSE
    /\ disk = [p \in LocalPaths |-> [exists |-> FALSE, text |-> <<>>]]

IdleBuild ==
    /\ mode = "" /\ mission_text = <<>>
    /\ grace = [f \in GraceFiles |-> <<>>]
    /\ sources_txt = [exists |-> FALSE, lines |-> <<>>]
    /\ queue = <<>> /\ out = <<>> /\ pc = "idle"

----------------------------------------------------------------------------
\* SpecSkeleton: extract_skeleton applied to a text, then to its own result.

ApplySkeleton ==
    /\ sk_passes < 2
    /\ sk_result' = extract_skeleton(IF sk_passes = 0 THEN sk_content ELSE sk_result)
    /\ sk_prev' = sk_result
    /\ sk_passes' = sk_passes + 1
    /\ UNCHANGED <<sk_content, fsVars, indexVars, fetchVars, envVars, buildVars>>

InitSkeleton ==
    /\ sk_content \in SkeletonInputs
    /\ sk_result = <<>> /\ sk_prev = <<>> /\ sk_passes = 0
    /\ IdleFs /\ IdleIndex /\ IdleFetch /\ IdleEnv /\ IdleBuild

NextSkeleton == ApplySkeleton

SpecSkeleton == InitSkeleton /\ [][NextSkeleton]_vars

----------------------------------------------------------------------------
\* SpecIndex: directories and files are created, then the source roots are
\* scanned as build_context scans them.

Mkdir ==
    /\ ix_pc = "setup"
    /\ Cardinality(fs_dirs) < MaxDirs
    /\ \E parent \in fs_dirs \cup {<<>>}, name \in DirNames :
          /\ Append(parent, name) \notin fs_dirs
          /\ fs_dirs' = fs_dirs \cup {Append(parent, name)}
    /\ UNCHANGED <<fs_files, file_text, skelVars, indexVars, fetchVars, envVars, buildVars>>

Touch ==
    /\ ix_pc = "setup"
    /\ Cardinality(fs_files) < MaxFiles
    /\ \E dir \in fs_dirs, name \in FileNames :
          /\ Append(dir, name) \notin fs_files
          /\ fs_files' = fs_files \cup {Append(dir, name)}
          /\ file_text' = [p \in fs_files' |-> IF p \in fs_files THEN file_text[p] ELSE <<"a">>]
    /\ UNCHANGED <<fs_dirs, skelVars, indexVars, fetchVars, envVars, buildVars>>

Scan ==
    /\ ix_pc = "setup"
    /\ \E roots \in RootLists :
          /\ source_dirs' = roots
          /\ tree_str' = generate_multi_tree(roots, exclude)
          /\ file_entries' = IndexFiles(roots, exclude)
    /\ ix_pc' = "done"
    /\ UNCHANGED <<skelVars, fsVars, fetchVars, envVars, buildVars>>

InitIndex ==
    /\ IdleSkeleton /\ IdleFs /\ IdleFetch /\ IdleEnv /\ IdleBuild
    /\ source_dirs = <<>> /\ tree_str = <<>> /\ file_entries = <<>> /\ ix_pc = "setup"

NextIndex == Mkdir \/ Touch \/ Scan

SpecIndex == InitIndex /\ [][NextIndex]_vars

----------------------------------------------------------------------------
\* SpecFetch: one call of fetch_source.

InitFetch ==
    /\ IdleSkeleton /\ IdleFs /\ IdleIndex /\ IdleBuild
    /\ source \in Sources
    /\ fpc = "call"
    /\ is_pdf = FALSE /\ is_url = FALSE
    /\ temp_file = None /\ temp_file_path = None /\ tmp_files = {}
    /\ raw_text = <<>> /\ exc = <<>> /\ result = <<>>
    /\ HAS_DOCLING \in BOOLEAN
    /\ disk \in DiskStates

NextFetch ==
    \/ FetchClassify
    \/ FetchProbe
    \/ FetchGet
    \/ FetchSaveTemp
    \/ FetchParsePdf
    \/ FetchLocalRead
    \/ FetchNormalize
    \/ FetchExcept

SpecFetch == InitFetch /\ [][NextFetch]_vars

----------------------------------------------------------------------------
\* SpecCodebase: build_context in the three modes that index the source roots.

SrcDir == <<"src">>

CodeTexts == { <<>>, <<"@", "a", "\n", "a">> \o CloseDelim }

InitCodebase ==
    /\ IdleSkeleton /\ IdleFetch /\ IdleEnv
    /\ fs_dirs = {SrcDir, <<"src", "venv">>}
    /\ fs_files = {<<"src", "a.py">>, <<"src", "b.pyc">>, <<"src", "venv", "a.py">>}
    /\ file_text \in [fs_files -> CodeTexts]
    /\ source_dirs \in {<<SrcDir>>, <<MissingRoot, SrcDir>>}
    /\ tree_str = <<>> /\ file_entries = <<>> /\ ix_pc = "idle"
    /\ mode \in {"ARCHITECT", "REFACTOR", "DEVELOPER"}
    /\ mission_text \in Texts
    /\ grace \in [GraceFiles -> Texts]
    /\ sources_txt = [exists |-> FALSE, lines |-> <<>>]
    /\ queue = <<>> /\ out = <<>> /\ pc = "start"

NextCodebase == BuildHeader \/ ArchitectSection \/ RefactorSection \/ DeveloperSection

SpecCodebase == InitCodebase /\ [][NextCodebase]_vars

----------------------------------------------------------------------------
\* SpecResearch: build_context in RESEARCH mode, the first stage: the later
\* stages' artifacts do not exist yet.

LineChoices ==
    { <<" ">>, <<"#", "note">>, <<" ">> \o LocalText \o <<" ">>, UrlPdf, UrlText }

SourceFiles ==
    {[exists |-> FALSE, lines |-> <<>>]}
    \cup { [exists |-> TRUE, lines |-> ls] :
             ls \in UNION { [1..n -> LineChoices] : n \in 0..MaxLines } }

InitResearch ==
    /\ IdleSkeleton /\ IdleFs /\ IdleIndex /\ IdleFetch
    /\ HAS_DOCLING \in BOOLEAN
    /\ disk \in DiskStates
    /\ mode = "RESEARCH"
    /\ mission_text \in Texts
    /\ grace \in { g \in [GraceFiles -> Texts] :
                     g["KNOWLEDGE.md"] = <<>> /\ g["ARCHITECTURE.md"] = <<>> }
    /\ sources_txt \in SourceFiles
    /\ queue = <<>> /\ out = <<>> /\ pc = "start"

NextResearch ==
    \/ BuildHeader
    \/ ResearchOpen
    \/ ResearchFetch
    \/ FetchClassify
    \/ FetchProbe
    \/ FetchGet
    \/ FetchSaveTemp
    \/ FetchParsePdf
    \/ FetchLocalRead
    \/ FetchNormalize
    \/ FetchExcept
    \/ ResearchArticle
    \/ ResearchRaise
    \/ ResearchClose

SpecResearch == InitResearch /\ [][NextResearch]_vars

----------------------------------------------------------------------------
\* Properties.

CDataItems == { i \in 1..Len(out) : out[i].k = "cdata" }

\* C1: in every mode, every block build_context embeds from non-template content
\* has each "]]>" of that content split, so that no block is terminated before its
\* own closing delimiter.
C1_EveryBlockNeutralized ==
    \A i \in CDataItems : BlockIntact(out[i].body)

\* C2: fetch_source never lets a failure escape as an exception: whatever the
\* outcome of each step, the call ends by returning a text.
C2_NeverRaises == fpc # "raised"

\* The call was for a local text file that exists, and no step of it failed.
LocalTextFetched ==
    /\ fpc = "returned" /\ ~is_url /\ ~is_pdf
    /\ DiskExists(source) /\ exc = <<>>

PlainChars == {"a", "t", "]", ">"}

C4_NotFoundNamesPath ==
    (fpc \in {"returned", "raised"} /\ ~is_url /\ ~DiskExists(source)) =>
        /\ fpc = "returned"
        /\ StartsWith(result, <<"Error: File not found ">>)
        /\ Contains(result, source)

\* The document of a finished REFACTOR or DEVELOPER run: root, template, mission,
\* then a context block holding `prior` when `prior` is non-empty and none
\* otherwise, then the payload opener, the tree block, and one file block per
\* indexed file whose character data is the file's full content, then the closers.
PayloadShape(prior) ==
    LET es == IndexFiles(source_dirs, exclude)
        n  == Len(es)
        k  == IF prior # <<>> THEN 3 ELSE 0
        f(i) == 6 + k + 1 + 3 + 3 * (i - 1)
    IN  /\ Len(out) = 5 + k + 1 + 3 + 3 * n + 2
        /\ out[1].k = "open" /\ out[2].k = "template"
        /\ out[3].k = "open" /\ out[3].name = "mission" /\ out[4].body = Body(mission_text)
        /\ prior # <<>> =>
              /\ out[6].k = "open" /\ out[7].k = "cdata" /\ out[8].k = "close"
              /\ out[7].body = Body(prior)
        /\ out[6 + k].k = "open" /\ out[6 + k].name \notin {"tree", "file"}
        /\ out[7 + k].k = "open" /\ out[7 + k].name = "tree"
        /\ out[8 + k].k = "cdata" /\ out[9 + k].k = "close"
        /\ \A i \in 1..n :
              /\ out[f(i)].k = "open" /\ out[f(i)].name = "file"
              /\ out[f(i)].attr = es[i].path /\ out[f(i)].type = ""
              /\ out[f(i) + 1].k = "cdata"
              /\ BlockIntact(out[f(i) + 1].body)
              /\ BlockData(out[f(i) + 1].body) = Body(file_text[es[i].path])
              /\ out[f(i) + 2].k = "close"
        /\ out[Len(out) - 1].k = "close" /\ out[Len(out)].k = "close"

RECURSIVE Nested(_, _)
Nested(items, stack) ==
    IF items = <<>> THEN stack = <<>>
    ELSE LET it == Head(items)
         IN  CASE it.k = "open"  -> Nested(Tail(items), <<it.name>> \o stack)
               [] it.k = "close" -> /\ stack # <<>>
                                    /\ Head(stack) = it.name
                                    /\ Nested(Tail(items), Tail(stack))
               [] OTHER          -> Nested(Tail(items), stack)

\* C6: for every mode, the written document is a single root element whose
\* sections are properly nested: every element build_context opens is closed by a
\* closing tag of the same name, and the root element is closed last.
C6_ProperlyNested ==
    pc = "done" =>
        /\ out[1].k = "open" /\ out[1].name = "grace_context"
        /\ out[Len(out)].k = "close" /\ out[Len(out)].name = "grace_context"
        /\ Nested(out, <<>>)

\* The references of SOURCES.txt: the lines that are neither blank nor #-prefixed.
References ==
    LET ls   == IF sources_txt.exists THEN sources_txt.lines ELSE <<>>
        refs == SelectSeq(ls, LAMBDA l : Strip(l) # <<>> /\ l[1] # "#")
    IN  [i \in 1..Len(refs) |-> Strip(refs[i])]

Articles ==
    LET opens == SelectSeq(out, LAMBDA it : it.k = "open" /\ it.name = "article")
    IN  [i \in 1..Len(opens) |-> opens[i].attr]

\* C7: in RESEARCH mode a blank or comment line of the source list produces no
\* article block and every other line produces exactly one, tagged with its
\* reference, in the order of the lines.
C7_OneArticlePerReference ==
    (mode = "RESEARCH" /\ pc \in {"done", "crashed"}) => Articles = References

\* Directory d lies in or below a directory under root r whose name is excluded.
InsideExcludedBelow(d, r) ==
    StartsWith(d, r) /\ \E i \in (Len(r) + 1)..Len(d) : d[i] \in exclude

ListedDirs(r) ==
    { tree_str[i].at : i \in { j \in 1..Len(tree_str) :
          tree_str[j].kind \in {"dir", "file"} /\ (r = <<>> \/ tree_str[j].start = r) } }
    \cup { SubSeq(file_entries[i].path, 1, Len(file_entries[i].path) - 1) :
             i \in { j \in 1..Len(file_entries) : r = <<>> \/ file_entries[j].src_dir = r } }

Roots == { source_dirs[i] : i \in 1..Len(source_dirs) }

\* C8 as stated: for any list of roots, neither the tree rendering nor the
\* file-entry list contains a file or subdirectory located inside a directory
\* below a root whose name is in the exclusion set.
C8_NothingInsideExcluded ==
    ix_pc = "done" =>
        \A r \in Roots : \A d \in ListedDirs(<<>>) : ~InsideExcludedBelow(d, r)

\* C8 as amended: within the scan of each root, neither the tree rendering nor the
\* file-entry list of that root contains a file or subdirectory located inside a
\* directory below that root whose name is in the exclusion set; a root given on
\* the command line is itself always scanned.
C8_NothingInsideExcludedPerRoot ==
    ix_pc = "done" =>
        \A r \in Roots : \A d \in ListedDirs(r) : ~InsideExcludedBelow(d, r)

\* A scanned root with a file inside an excluded directory two levels below it.
C8_Witness ==
    /\ ix_pc = "done"
    /\ \E r \in Roots : \E p \in fs_files :
          /\ StartsWith(p, r)
          /\ \E i \in (Len(r) + 2)..(Len(p) - 1) : p[i] \in exclude
          /\ \E j \in 1..Len(tree_str) : tree_str[j].kind = "dir" /\ tree_str[j].start = r

\* C9: extract_skeleton(extract_skeleton(t)) = extract_skeleton(t) for every text.
C9_SkeletonIdempotent ==
    sk_passes = 2 => sk_result = sk_prev

\* A text with a kept line and a dropped line, reduced twice.
C9_Witness ==
    /\ sk_passes = 2
    /\ sk_result # <<>> /\ sk_result # sk_content
    /\ Len(Split(sk_content, "\n")) > Len(Split(sk_result, "\n"))

\* C10: whenever fetch_source has created a temporary file, that file no longer
\* exists once the call has ended, whichever step after the creation failed.
C10_TempFileRemoved ==
    (fpc \in {"returned", "raised"} /\ temp_file_path # None) =>
        temp_file_path \notin tmp_files

====
